---------------------------- MODULE Spec2Model ----------------------------
(***************************************************************************)
(* A model of yurl (src/yurl/__init__.py): the URL 7-tuple, its parser,    *)
(* serializer, validator, reference resolution, replace() and the          *)
(* CachedURL parse cache.                                                  *)
(*                                                                         *)
(* A Python text is modelled as a sequence of one-character strings, so    *)
(* that 'abc' is <<"a", "b", "c">> and '' is <<>>.  Indices are 1-based;   *)
(* a search that fails yields 0 (Python: -1) or Len+1 where noted.         *)
(***************************************************************************)
EXTENDS Integers, Sequences, FiniteSets, TLC

VARIABLES
    pc,           \* position of the single-threaded scenario being run
    url,          \* the text handed to URL(url) / CachedURL(url)
    self,         \* the URL value an operation is applied to
    other,        \* the second URL value (the right operand of +)
    result,       \* the URL value the last operation returned
    text,         \* a text result (serialization, path)
    exc,          \* name of the exception the last operation raised, "" if none
    kwargs,       \* keyword arguments of replace()
    _cache,       \* CachedURL._cache: a function from texts to URL values
    _cache_size,  \* CachedURL._cache_size
    last,         \* what the last sequential CachedURL(url) call did
    tpc,          \* per thread: position inside CachedURL.__new__
    turl,         \* per thread: its url argument
    tself         \* per thread: its local variable self

vars == <<pc, url, self, other, result, text, exc, kwargs, _cache, _cache_size, last,
          tpc, turl, tself>>

---------------------------------------------------------------------------
(* Bounds of the model.                                                    *)

MaxUrlLen == 4
MaxPathLen == 7
MaxBaseSegs == 2
MaxRefSegs == 2
MaxCacheSize == 3
NumKeys == 4
NumThreads == 2

---------------------------------------------------------------------------
(* Python built-ins on texts.                                              *)

\* None, which is no text: texts hold one-character strings only.
None == <<"None">>

LowerLetters ==
    {"a", "b", "c", "d", "e", "f", "g", "h", "i", "j", "k", "l", "m",
     "n", "o", "p", "q", "r", "s", "t", "u", "v", "w", "x", "y", "z"}

UpperToLower ==
    [c \in {"A", "B", "C", "D", "E", "F", "G", "H", "I", "J", "K", "L", "M",
            "N", "O", "P", "Q", "R", "S", "T", "U", "V", "W", "X", "Y", "Z"} |->
       CASE c = "A" -> "a" [] c = "B" -> "b" [] c = "C" -> "c" [] c = "D" -> "d"
         [] c = "E" -> "e" [] c = "F" -> "f" [] c = "G" -> "g" [] c = "H" -> "h"
         [] c = "I" -> "i" [] c = "J" -> "j" [] c = "K" -> "k" [] c = "L" -> "l"
         [] c = "M" -> "m" [] c = "N" -> "n" [] c = "O" -> "o" [] c = "P" -> "p"
         [] c = "Q" -> "q" [] c = "R" -> "r" [] c = "S" -> "s" [] c = "T" -> "t"
         [] c = "U" -> "u" [] c = "V" -> "v" [] c = "W" -> "w" [] c = "X" -> "x"
         [] c = "Y" -> "y" [] c = "Z" -> "z"]

Digits == {"0", "1", "2", "3", "4", "5", "6", "7", "8", "9"}

\* str.lower()
lower(s) ==
    [i \in 1..Len(s) |-> IF s[i] \in DOMAIN UpperToLower THEN UpperToLower[s[i]]
                         ELSE s[i]]

\* str.isdigit(): non-empty and every character a digit
isdigit(s) == s # <<>> /\ \A i \in 1..Len(s) : s[i] \in Digits

\* s[n:] (0-based n): s without its first n characters
DropFirst(s, n) == SubSeq(s, n + 1, Len(s))

\* s[:n]
TakeFirst(s, n) == SubSeq(s, 1, n)

\* index of the first character of s that is in stop, Len(s)+1 if there is none
FirstIn(s, stop) ==
    IF \E i \in 1..Len(s) : s[i] \in stop
    THEN CHOOSE i \in 1..Len(s) :
            s[i] \in stop /\ \A j \in 1..(i - 1) : s[j] \notin stop
    ELSE Len(s) + 1

\* str.rfind(c) as a 1-based index, 0 when c is not in s
rfind(s, c) ==
    IF \E i \in 1..Len(s) : s[i] = c
    THEN CHOOSE i \in 1..Len(s) : s[i] = c /\ \A j \in (i + 1)..Len(s) : s[j] # c
    ELSE 0

\* str.startswith(p)
startswith(s, p) == Len(s) >= Len(p) /\ SubSeq(s, 1, Len(p)) = p

\* str.endswith(p)
endswith(s, p) == Len(s) >= Len(p) /\ SubSeq(s, Len(s) - Len(p) + 1, Len(s)) = p

\* c in s
Contains(s, c) == \E i \in 1..Len(s) : s[i] = c

\* every text over alphabet of length at most n
Texts(alphabet, n) == UNION {[1..k -> alphabet] : k \in 0..n}

---------------------------------------------------------------------------
(* The URL value and its construction.                                     *)

\* URLTuple: namedtuple('URLBase', 'scheme host path query fragment userinfo port')
URLTuple(scheme, host, path, query, fragment, userinfo, port) ==
    [scheme |-> scheme, host |-> host, path |-> path, query |-> query,
     fragment |-> fragment, userinfo |-> userinfo, port |-> port]

\* An optional single character of the pattern (\??, \#?): s without a
\* leading c.
StripOne(s, c) == IF startswith(s, <<c>>) THEN Tail(s) ELSE s

\* \??([^#]*) \#?(.*) on the text r3 after the path
SplitQuery(scheme, userinfo, host, path, r3) ==
    [scheme |-> scheme, userinfo |-> userinfo, host |-> host, port |-> <<>>,
     path |-> path,
     query |-> TakeFirst(StripOne(r3, "?"), FirstIn(StripOne(r3, "?"), {"#"}) - 1),
     fragment |-> StripOne(DropFirst(StripOne(r3, "?"),
                                     FirstIn(StripOne(r3, "?"), {"#"}) - 1), "#")]

\* ([^?#]*) on the text r2 after the authority
SplitPath(scheme, userinfo, host, r2) ==
    SplitQuery(scheme, userinfo, host,
               TakeFirst(r2, FirstIn(r2, {"?", "#"}) - 1),
               DropFirst(r2, FirstIn(r2, {"?", "#"}) - 1))

\* the userinfo taken up to the last '@' of the authority segment
SplitUserinfoLastAt(scheme, seg, r2) ==
    SplitPath(scheme,
              IF Contains(seg, "@") THEN TakeFirst(seg, rfind(seg, "@") - 1) ELSE <<>>,
              DropFirst(seg, rfind(seg, "@")),
              r2)

\* (?:([^/?#@]*)@)? ([^/?#]*) on the authority segment seg ('' when the
\* authority group did not match): [^/?#@]* cannot run over an '@', so the
\* userinfo ends at the first '@' of the segment.
SplitUserinfo(scheme, seg, r2) ==
    SplitPath(scheme,
              IF Contains(seg, "@") THEN TakeFirst(seg, FirstIn(seg, {"@"}) - 1)
              ELSE <<>>,
              IF Contains(seg, "@") THEN DropFirst(seg, FirstIn(seg, {"@"})) ELSE seg,
              r2)

\* (?:// ... )? on the text a after '//', reaching to the next '/', '?' or '#'
SplitAuthority(scheme, a) ==
    SplitUserinfo(scheme,
                  TakeFirst(a, FirstIn(a, {"/", "?", "#"}) - 1),
                  DropFirst(a, FirstIn(a, {"/", "?", "#"}) - 1))

\* the rest of the pattern on the text r1 after the scheme
SplitAfterScheme(scheme, r1) ==
    IF startswith(r1, <<"/", "/">>)
    THEN SplitAuthority(scheme, DropFirst(r1, 2))
    ELSE SplitPath(scheme, <<>>, <<>>, r1)

\* (?:([^:/?#]+):)? with d the place of the first of : / ? # in u
SplitScheme(u, d) ==
    IF d > 1 /\ d <= Len(u) /\ u[d] = ":"
    THEN SplitAfterScheme(TakeFirst(u, d - 1), DropFirst(u, d))
    ELSE SplitAfterScheme(<<>>, u)

\* URL._split_re(url).groups(''): the seven groups, unmatched ones as ''.
\* Every part after the scheme matches any text, so the greedy match never
\* backtracks: each optional group is taken whenever it can be.
_split_re(u) == SplitScheme(u, FirstIn(u, {":", "/", "?", "#"}))

\* The host/port split of URL.__new__: the text after the last ':' becomes
\* the port only when it is empty or all digits.
SplitPortFirstColon(host, port) ==
    IF FirstIn(host, {":"}) <= Len(host)
       /\ (DropFirst(host, FirstIn(host, {":"})) = <<>>
           \/ isdigit(DropFirst(host, FirstIn(host, {":"}))))
    THEN [host |-> TakeFirst(host, FirstIn(host, {":"}) - 1),
          port |-> DropFirst(host, FirstIn(host, {":"}))]
    ELSE [host |-> host, port |-> port]

SplitPort(host, port) ==
    IF rfind(host, ":") >= 1
       /\ (DropFirst(host, rfind(host, ":")) = <<>>
           \/ isdigit(DropFirst(host, rfind(host, ":"))))
    THEN [host |-> TakeFirst(host, rfind(host, ":") - 1),
          port |-> DropFirst(host, rfind(host, ":"))]
    ELSE [host |-> host, port |-> port]

\* the tuple built from the groups and the split host
ParsedTuple(g, hp) ==
    URLTuple(lower(g.scheme), lower(hp.host), g.path, g.query, g.fragment,
             g.userinfo, hp.port)

\* the url branch of URL.__new__ on the groups g
FromGroups(g) == ParsedTuple(g, SplitPort(g.host, g.port))

\* URL.__new__(cls, url, scheme, host, path, query, fragment, userinfo, port).
\* port is always a text here, so str(port) leaves it as it is.
URL_new(u, scheme, host, path, query, fragment, userinfo, port) ==
    IF u # None
    THEN FromGroups(_split_re(u))
    ELSE URLTuple(lower(scheme), lower(host),
                  IF (userinfo # <<>> \/ host # <<>> \/ port # <<>>)
                     /\ path # <<>> /\ path[1] # "/"
                  THEN <<"/">> \o path ELSE path,
                  query, fragment, userinfo, port)

\* URL(url)
URL(u) == URL_new(u, <<>>, <<>>, <<>>, <<>>, <<>>, <<>>, <<>>)

\* URL(), every field empty
EmptyURL == URL_new(None, <<>>, <<>>, <<>>, <<>>, <<>>, <<>>, <<>>)

\* URL.authority
authority(v) ==
    LET a == IF v.port # <<>> THEN v.host \o <<":">> \o v.port ELSE v.host
    IN  IF v.userinfo # <<>> THEN v.userinfo \o <<"@">> \o a ELSE a

\* URL.full_path
full_path(v) ==
    LET p1 == IF v.query # <<>> THEN v.path \o <<"?">> \o v.query ELSE v.path
    IN  IF v.fragment # <<>> THEN p1 \o <<"#">> \o v.fragment ELSE p1

\* URL.has_authority
has_authority(v) == v.host # <<>> \/ v.userinfo # <<>> \/ v.port # <<>>

\* URL.__unicode__ (as_string, __str__)
unicode(v) ==
    LET a == authority(v)
        first == TakeFirst(v.path, FirstIn(v.path, {"/"}) - 1)  \* partition('/')[0]
        base1 == IF a # <<>> THEN <<"/", "/">> \o a
                 ELSE IF SubSeq(v.path, 1, IF Len(v.path) < 2 THEN Len(v.path) ELSE 2)
                         = <<"/", "/">>
                      THEN <<"/", "/">>
                      ELSE a
        base2 == IF v.scheme # <<>> THEN v.scheme \o <<":">> \o base1
                 ELSE IF base1 = <<>> /\ Contains(first, ":") THEN <<".", "/">>
                      ELSE base1
    IN  base2 \o full_path(v)

---------------------------------------------------------------------------
(* Parsing, serializing and parsing again.                                 *)

ParseAlphabet == {"a", "A", "1", ":", "/", "?", "#", "@"}

HostPort1 == <<"/", "/", "h", "o", "s", "t", ":", "1", "2", "3", "4", "/">>
HostPort2 == <<"/", "/", "[", ":", ":", "1", "]", ":", "8", "0", "/">>
HostPort3 == <<"/", "/", "2", "0", "0", "1", ":", "d", "b", "8", ":", ":", "1", "/">>

ParseInputs == Texts(ParseAlphabet, MaxUrlLen) \cup {HostPort1, HostPort2, HostPort3}

\* _cache_size = 20
DefaultCacheSize == 20

\* _cache = {}
EmptyCache == <<>>

\* The cache as the class body leaves it, no call made and no thread running.
NoCache ==
    /\ _cache = EmptyCache /\ _cache_size = DefaultCacheSize /\ last = <<>>
    /\ tpc = <<>> /\ turl = <<>> /\ tself = <<>>

InitParse ==
    /\ pc = "start"
    /\ url \in ParseInputs
    /\ self = EmptyURL /\ other = EmptyURL /\ result = EmptyURL
    /\ text = <<>> /\ exc = "" /\ kwargs = <<>>
    /\ NoCache

\* v = URL(url)
Parse ==
    /\ pc = "start"
    /\ self' = URL(url)
    /\ pc' = "parsed"
    /\ UNCHANGED <<url, other, result, text, exc, kwargs, _cache, _cache_size, last,
                   tpc, turl, tself>>

\* s = str(v)
Serialize ==
    /\ pc = "parsed"
    /\ text' = unicode(self)
    /\ pc' = "serialized"
    /\ UNCHANGED <<url, self, other, result, exc, kwargs, _cache, _cache_size, last,
                   tpc, turl, tself>>

\* w = URL(s)
Reparse ==
    /\ pc = "serialized"
    /\ result' = URL(text)
    /\ pc' = "reparsed"
    /\ UNCHANGED <<url, self, other, text, exc, kwargs, _cache, _cache_size, last,
                   tpc, turl, tself>>

NextParse == Parse \/ Serialize \/ Reparse

SpecParse == InitParse /\ [][NextParse]_vars


\* C1: Round-trip: for every input text s, with v = parse(s), parsing the
\* serialization of v gives v back in all seven fields.
RoundTrip == pc = "reparsed" => result = self

Text_host == <<"h", "o", "s", "t">>
Text_1234 == <<"1", "2", "3", "4">>
Text_v6 == <<"[", ":", ":", "1", "]">>
Text_80 == <<"8", "0">>
Text_2001_db8_1 == <<"2", "0", "0", "1", ":", "d", "b", "8", ":", ":", "1">>
Text_2001_db8_ == <<"2", "0", "0", "1", ":", "d", "b", "8", ":">>

\* C3 as written: parse("//host:1234/") has host "host" and port "1234",
\* parse("//[::1]:80/") has host "[::1]" and port "80", and
\* parse("//2001:db8::1/") keeps host "2001:db8::1" whole with an empty port.
HostPortSplitUnbracketedKeptWhole ==
    pc # "start" =>
        /\ url = HostPort1 => self.host = Text_host /\ self.port = Text_1234
        /\ url = HostPort2 => self.host = Text_v6 /\ self.port = Text_80
        /\ url = HostPort3 => self.host = Text_2001_db8_1 /\ self.port = <<>>

\* C3 amended: the first two as written; parse("//2001:db8::1/") has host
\* "2001:db8:" and port "1", the all-digit text after the last ':' being
\* split off as the port of an unbracketed host too.
HostPortSplit ==
    pc # "start" =>
        /\ url = HostPort1 => self.host = Text_host /\ self.port = Text_1234
        /\ url = HostPort2 => self.host = Text_v6 /\ self.port = Text_80
        /\ url = HostPort3 => self.host = Text_2001_db8_ /\ self.port = <<"1">>

HostPortSplitWitness == pc = "parsed" /\ url = HostPort3 /\ self.port = <<"1">>

\* Where the authority segment of u starts (the number of characters before
\* it): after a leading '//', or after scheme://; 0 when u has no '//' there.
AuthorityOffset(u) ==
    LET d == FirstIn(u, {":", "/", "?", "#"})
    IN  IF startswith(u, <<"/", "/">>) THEN 2
        ELSE IF d > 1 /\ startswith(DropFirst(u, d - 1), <<":", "/", "/">>)
             THEN d + 2
             ELSE 0

\* The text after '//' up to the next '/', '?' or '#'.
AuthoritySegment(u) ==
    LET a == DropFirst(u, AuthorityOffset(u))
    IN  TakeFirst(a, FirstIn(a, {"/", "?", "#"}) - 1)

\* What parse must yield when userinfo ends at position i of the segment.
UserinfoSplitAt(i) ==
    LET seg == AuthoritySegment(url)
        hp == SplitPort(DropFirst(seg, i), <<>>)
    IN  /\ self.userinfo = TakeFirst(seg, i - 1)
        /\ self.host = lower(hp.host)
        /\ self.port = hp.port

\* C10 as written: when the authority segment contains '@', userinfo is the
\* text before the LAST '@' and host/port come from the text after it.
UserinfoBeforeLastAt ==
    (pc # "start" /\ AuthorityOffset(url) > 0
        /\ Contains(AuthoritySegment(url), "@"))
    => UserinfoSplitAt(rfind(AuthoritySegment(url), "@"))

\* C10 amended: when the authority segment contains '@', userinfo is the text
\* before the FIRST '@' and host/port come from the text after that first '@'.
UserinfoBeforeFirstAt ==
    (pc # "start" /\ AuthorityOffset(url) > 0
        /\ Contains(AuthoritySegment(url), "@"))
    => UserinfoSplitAt(FirstIn(AuthoritySegment(url), {"@"}))

UserinfoBeforeFirstAtWitness ==
    /\ pc = "parsed" /\ AuthorityOffset(url) > 0
    /\ FirstIn(AuthoritySegment(url), {"@"}) < rfind(AuthoritySegment(url), "@")
    /\ Contains(self.host, "@")


---------------------------------------------------------------------------
(* Dot-segment removal and reference resolution.                           *)

\* str.split(sep): the texts between the separators, at least one
RECURSIVE split(_, _)
split(s, sep) ==
    LET i == FirstIn(s, {sep})
    IN  IF i > Len(s) THEN <<s>>
        ELSE <<TakeFirst(s, i - 1)>> \o split(DropFirst(s, i), sep)

\* sep.join(parts)
RECURSIVE join(_, _)
join(sep, parts) ==
    IF parts = <<>> THEN <<>>
    ELSE IF Len(parts) = 1 THEN parts[1]
    ELSE parts[1] \o <<sep>> \o join(sep, Tail(parts))

\* The for loop of remove_dot_segments over the segments still to read.
RECURSIVE DotLoop(_, _)
DotLoop(stack, segments) ==
    IF segments = <<>> THEN stack
    ELSE LET segment == Head(segments)
             stack1 == IF segment = <<".">> THEN stack
                       ELSE IF segment = <<".", ".">>
                            THEN IF Len(stack) > 0
                                 THEN SubSeq(stack, 1, Len(stack) - 1)
                                 ELSE stack
                            ELSE Append(stack, segment)
         IN  DotLoop(stack1, Tail(segments))

\* remove_dot_segments with the trailing '' appended whatever the path ends with
remove_dot_segments_always_trailing(path) ==
    join("/", Append(DotLoop(<<>>, split(path, "/")), <<>>))

\* URL.remove_dot_segments(path)
remove_dot_segments(path) ==
    LET stack == DotLoop(<<>>, split(path, "/"))
    IN  IF endswith(path, <<"/", ".">>) \/ endswith(path, <<"/", ".", ".">>)
        THEN join("/", Append(stack, <<>>))
        ELSE join("/", stack)

\* parts[0] + parts[1] of path.rpartition('/'): the path up to and including
\* its last '/', '' when it has none
rpartition_head(path) == TakeFirst(path, rfind(path, "/"))

\* __add__ taking the base's authority whenever other has none, whatever
\* other's scheme
add_authority_always_inherited(v, o) ==
    LET noScheme == o.scheme = <<>>
        inherit == ~has_authority(o)
        path == IF ~(noScheme /\ inherit) THEN o.path
                ELSE IF o.path = <<>> THEN v.path
                ELSE IF o.path[1] # "/" THEN rpartition_head(v.path) \o o.path
                ELSE o.path
        query == IF noScheme /\ inherit /\ o.path = <<>> /\ o.query = <<>>
                 THEN v.query ELSE o.query
    IN  URL_new(None,
                IF noScheme THEN v.scheme ELSE o.scheme,
                IF inherit THEN v.host ELSE o.host,
                remove_dot_segments(path), query, o.fragment,
                IF inherit THEN v.userinfo ELSE o.userinfo,
                IF inherit THEN v.port ELSE o.port)

\* __add__ with a relative path taken as it is, not merged with the base's
add_unmerged(v, o) ==
    LET inherit == o.scheme = <<>> /\ ~has_authority(o)
        path == IF inherit /\ o.path = <<>> THEN v.path ELSE o.path
        query == IF inherit /\ o.path = <<>> /\ o.query = <<>>
                 THEN v.query ELSE o.query
    IN  URL_new(None,
                IF o.scheme = <<>> THEN v.scheme ELSE o.scheme,
                IF inherit THEN v.host ELSE o.host,
                remove_dot_segments(path), query, o.fragment,
                IF inherit THEN v.userinfo ELSE o.userinfo,
                IF inherit THEN v.port ELSE o.port)

\* URL.__add__(self, other), other a URLTuple
add(v, o) ==
    LET noScheme == o.scheme = <<>>
        \* the branch "if not (host or userinfo or port)" under "if not scheme"
        inherit == noScheme /\ ~(o.host # <<>> \/ o.userinfo # <<>> \/ o.port # <<>>)
        path == IF ~inherit THEN o.path
                ELSE IF o.path = <<>> THEN v.path
                ELSE IF o.path[1] # "/" THEN rpartition_head(v.path) \o o.path
                ELSE o.path
        query == IF inherit /\ o.path = <<>> /\ o.query = <<>>
                 THEN v.query ELSE o.query
    IN  URL_new(None,
                IF noScheme THEN v.scheme ELSE o.scheme,
                IF inherit THEN v.host ELSE o.host,
                remove_dot_segments(path), query, o.fragment,
                IF inherit THEN v.userinfo ELSE o.userinfo,
                IF inherit THEN v.port ELSE o.port)

---------------------------------------------------------------------------
(* remove_dot_segments applied once and again.                             *)

PathAlphabet == {"a", "/", "."}

InitDots ==
    /\ pc = "start"
    /\ url = <<>> /\ self = EmptyURL /\ other = EmptyURL /\ result = EmptyURL
    /\ text \in Texts(PathAlphabet, MaxPathLen)
    /\ exc = "" /\ kwargs = <<>>
    /\ NoCache

\* q = URL.remove_dot_segments(p), kept as the path of result
RemoveOnce ==
    /\ pc = "start"
    /\ result' = [result EXCEPT !.path = remove_dot_segments(text)]
    /\ pc' = "once"
    /\ UNCHANGED <<url, self, other, text, exc, kwargs, _cache, _cache_size, last,
                   tpc, turl, tself>>

\* r = URL.remove_dot_segments(q), kept as the path of other
RemoveTwice ==
    /\ pc = "once"
    /\ other' = [other EXCEPT !.path = remove_dot_segments(result.path)]
    /\ pc' = "twice"
    /\ UNCHANGED <<url, self, result, text, exc, kwargs, _cache, _cache_size, last,
                   tpc, turl, tself>>

NextDots == RemoveOnce \/ RemoveTwice

SpecDots == InitDots /\ [][NextDots]_vars

\* C7: removeDotSegments is idempotent: removing the dot segments of an
\* already processed path gives that path again.
RemoveDotSegmentsIdempotent == pc = "twice" => other.path = result.path

RemoveDotSegmentsIdempotentWitness ==
    pc = "twice" /\ result.path # text /\ result.path # <<>>

---------------------------------------------------------------------------
(* Reference resolution: base + ref.                                       *)

Segments == {<<>>, <<"a">>, <<".">>, <<".", ".">>}

\* the paths of at most n segments joined by '/'
Paths(n) == {join("/", segs) : segs \in Texts(Segments, n)}

BaseValues ==
    {URL_new(None, scheme, host, path, query, <<"b">>, <<>>, <<>>) :
        scheme \in {<<>>, <<"s">>}, host \in {<<>>, <<"h">>},
        path \in Paths(MaxBaseSegs), query \in {<<>>, <<"q">>}}

RefValues ==
    {URL_new(None, scheme, host, path, query, fragment, <<>>, <<>>) :
        scheme \in {<<>>, <<"r">>}, host \in {<<>>, <<"g">>},
        path \in Paths(MaxRefSegs), query \in {<<>>, <<"y">>},
        fragment \in {<<>>, <<"f">>}}

InitResolve ==
    /\ pc = "start"
    /\ url = <<>>
    /\ self \in BaseValues
    /\ other \in RefValues
    /\ result = EmptyURL
    /\ text = <<>> /\ exc = "" /\ kwargs = <<>>
    /\ NoCache

\* result = self + other
Add ==
    /\ pc = "start"
    /\ result' = add(self, other)
    /\ pc' = "added"
    /\ UNCHANGED <<url, self, other, text, exc, kwargs, _cache, _cache_size, last,
                   tpc, turl, tself>>

NextResolve == Add

SpecResolve == InitResolve /\ [][NextResolve]_vars

\* The scheme, authority and fragment a reference without scheme and
\* authority resolves to, and its query.
InheritedParts ==
    /\ result.scheme = self.scheme
    /\ result.host = self.host
    /\ result.userinfo = self.userinfo
    /\ result.port = self.port
    /\ result.fragment = other.fragment
    /\ result.query = IF other.path = <<>> /\ other.query = <<>>
                      THEN self.query ELSE other.query

\* The path the three cases of the claim choose, before dot-segment removal.
ChosenPath ==
    IF other.path = <<>> THEN self.path
    ELSE IF other.path[1] = "/" THEN other.path
    ELSE TakeFirst(self.path, rfind(self.path, "/")) \o other.path

\* A path as a URL with an authority keeps it: a non-empty path that does not
\* start with '/' gets one.
RootedUnderAuthority(path) ==
    IF has_authority(self) /\ path # <<>> /\ path[1] # "/"
    THEN <<"/">> \o path ELSE path

\* C2 as written: for a ref with empty scheme and no authority, scheme and
\* authority are base's, fragment is ref's; with ref.path empty the path is
\* base.path unchanged and the query ref's if non-empty else base's; else the
\* path is removeDotSegments of ref.path (starting with '/') or of the merge
\* of base.path and ref.path, and the query is ref's.
ResolveRelativeAsWritten ==
    (pc = "added" /\ other.scheme = <<>> /\ ~has_authority(other)) =>
        /\ InheritedParts
        /\ result.path = IF other.path = <<>> THEN self.path
                         ELSE remove_dot_segments(ChosenPath)

\* C2 amended: as written, except that with ref.path empty the path is
\* removeDotSegments(base.path), and that in all three cases a resulting
\* non-empty path not starting with '/' gets a '/' in front when base has an
\* authority.
ResolveRelative ==
    (pc = "added" /\ other.scheme = <<>> /\ ~has_authority(other)) =>
        /\ InheritedParts
        /\ result.path = RootedUnderAuthority(remove_dot_segments(ChosenPath))

ResolveRelativeWitness ==
    /\ pc = "added" /\ other.scheme = <<>> /\ ~has_authority(other)
    /\ other.path # <<>> /\ other.path[1] # "/"
    /\ Contains(self.path, "/")
    /\ result.path # self.path \o other.path
    /\ result.path # other.path

\* C8 as written: a ref with a scheme and no authority resolves to ref's
\* scheme and base's authority.
ResolveSchemeKeepsBaseAuthority ==
    (pc = "added" /\ other.scheme # <<>> /\ ~has_authority(other)) =>
        /\ result.scheme = other.scheme
        /\ result.host = self.host
        /\ result.userinfo = self.userinfo
        /\ result.port = self.port

\* C8 amended: a ref with a scheme and no authority resolves to ref's scheme
\* and ref's own (empty) authority; nothing of base's authority is taken.
ResolveSchemeTakesRefAuthority ==
    (pc = "added" /\ other.scheme # <<>> /\ ~has_authority(other)) =>
        /\ result.scheme = other.scheme
        /\ result.host = <<>>
        /\ result.userinfo = <<>>
        /\ result.port = <<>>

ResolveSchemeTakesRefAuthorityWitness ==
    /\ pc = "added" /\ other.scheme # <<>> /\ ~has_authority(other)
    /\ has_authority(self)


---------------------------------------------------------------------------
(* Validation.                                                             *)

\* Where '$' matches (no re.MULTILINE): at the end of the text, and just
\* before a newline that ends the text.
DollarEnds(s) ==
    {Len(s)} \cup (IF s # <<>> /\ s[Len(s)] = "\n" THEN {Len(s) - 1} ELSE {})

\* [a-z][a-z0-9+\-.]* matching s[1..e]
SchemeUpTo(s, e) ==
    /\ e >= 1
    /\ s[1] \in LowerLetters
    /\ \A i \in 2..e : s[i] \in LowerLetters \cup Digits \cup {"+", "-", "."}

\* [^...]+ matching s[1..e], stop the excluded characters
FreeOfUpTo(s, e, stop) == e >= 1 /\ \A i \in 1..e : s[i] \notin stop

\* [a-f0-9] under re.IGNORECASE
HexChars == Digits \cup {"a", "b", "c", "d", "e", "f", "A", "B", "C", "D", "E", "F"}

\* [a-z0-9\-._~!$&'()*,;=:] under re.IGNORECASE
FutureChars ==
    LowerLetters \cup DOMAIN UpperToLower \cup Digits \cup
    {"-", ".", "_", "~", "!", "$", "&", "'", "(", ")", "*", ",", ";", "=", ":"}

\* (?: v[a-f0-9]+\.[a-z0-9\-._~!$&'()*,;=:]+ | [a-f0-9:\.]+ ) matching s[1..e]
IpLiteralUpTo(s, e) ==
    \/ /\ e >= 4
       /\ s[1] \in {"v", "V"}
       /\ \E j \in 2..(e - 2) :
            /\ \A i \in 2..j : s[i] \in HexChars
            /\ s[j + 1] = "."
            /\ \A i \in (j + 2)..e : s[i] \in FutureChars
    \/ /\ e >= 1
       /\ \A i \in 1..e : s[i] \in HexChars \cup {":", "."}

\* _valid_scheme_re = re.compile(r'^[a-z][a-z0-9+\-.]*$').match
_valid_scheme_re(s) == \E e \in DollarEnds(s) : SchemeUpTo(s, e)

\* _valid_userinfo_re = re.compile(r'^[^/?\#@\[\]]+$').match
_valid_userinfo_re(s) ==
    \E e \in DollarEnds(s) : FreeOfUpTo(s, e, {"/", "?", "#", "@", "[", "]"})

\* _valid_reg_name_re = re.compile(r'^[^/?\#@\[\]:]+$').match
_valid_reg_name_re(s) ==
    \E e \in DollarEnds(s) : FreeOfUpTo(s, e, {"/", "?", "#", "@", "[", "]", ":"})

\* _valid_path_re = re.compile(r'^[^?\#]+$').match
_valid_path_re(s) == \E e \in DollarEnds(s) : FreeOfUpTo(s, e, {"?", "#"})

\* _valid_query_re = re.compile(r'^[^\#]+$').match
_valid_query_re(s) == \E e \in DollarEnds(s) : FreeOfUpTo(s, e, {"#"})

\* _valid_ip_literal_re
_valid_ip_literal_re(s) == \E e \in DollarEnds(s) : IpLiteralUpTo(s, e)

\* validate checking the host before the userinfo
validate_host_before_userinfo(v) ==
    IF v.scheme # <<>> /\ ~_valid_scheme_re(v.scheme) THEN "InvalidScheme"
    ELSE IF v.host # <<>>
            /\ IF startswith(v.host, <<"[">>) /\ endswith(v.host, <<"]">>)
               THEN ~_valid_ip_literal_re(SubSeq(v.host, 2, Len(v.host) - 1))
               ELSE ~_valid_reg_name_re(v.host)
    THEN "InvalidHost"
    ELSE IF v.userinfo # <<>> /\ ~_valid_userinfo_re(v.userinfo)
    THEN "InvalidUserinfo"
    ELSE IF v.path # <<>> /\ ~_valid_path_re(v.path) THEN "InvalidPath"
    ELSE IF v.query # <<>> /\ ~_valid_query_re(v.query) THEN "InvalidQuery"
    ELSE ""

\* URL.validate(self): the name of the exception raised, "" when it returns self
validate(v) ==
    IF v.scheme # <<>> /\ ~_valid_scheme_re(v.scheme) THEN "InvalidScheme"
    ELSE IF v.userinfo # <<>> /\ ~_valid_userinfo_re(v.userinfo)
    THEN "InvalidUserinfo"
    ELSE IF v.host # <<>>
            /\ IF startswith(v.host, <<"[">>) /\ endswith(v.host, <<"]">>)
               THEN ~_valid_ip_literal_re(SubSeq(v.host, 2, Len(v.host) - 1))
               ELSE ~_valid_reg_name_re(v.host)
    THEN "InvalidHost"
    ELSE IF v.path # <<>> /\ ~_valid_path_re(v.path) THEN "InvalidPath"
    ELSE IF v.query # <<>> /\ ~_valid_query_re(v.query) THEN "InvalidQuery"
    ELSE ""

ValidateSchemes == {<<>>, <<"a">>, <<"a", "+", "1">>, <<"1">>, <<"a", "\n">>}
ValidateUserinfos == {<<>>, <<"u">>, <<"u", "@">>, <<"[">>}
ValidateHosts ==
    {<<>>, <<"h">>, <<"h", ":">>, <<"[", ":", ":", "1", "]">>, <<"[", "g", "]">>,
     <<"[", "]">>, <<"[", "v", "1", ".", "x", "]">>, <<"[", ":", "\n", "]">>}
ValidatePaths == {<<>>, <<"/", "p">>, <<"/", "?">>, <<"#">>}
ValidateQueries == {<<>>, <<"q", "?">>, <<"#">>}
ValidateFragments == {<<>>, <<"#", "?">>}

InitValidate ==
    /\ pc = "start"
    /\ url = <<>>
    /\ self \in {URL_new(None, scheme, host, path, query, fragment, userinfo, <<>>) :
                    scheme \in ValidateSchemes, host \in ValidateHosts,
                    path \in ValidatePaths, query \in ValidateQueries,
                    fragment \in ValidateFragments, userinfo \in ValidateUserinfos}
    /\ other = EmptyURL /\ result = EmptyURL
    /\ text = <<>> /\ exc = "" /\ kwargs = <<>>
    /\ NoCache

\* result = self.validate()
Validate ==
    /\ pc = "start"
    /\ exc' = validate(self)
    /\ result' = IF validate(self) = "" THEN self ELSE result
    /\ pc' = "validated"
    /\ UNCHANGED <<url, self, other, text, kwargs, _cache, _cache_size, last,
                   tpc, turl, tself>>

NextValidate == Validate

SpecValidate == InitValidate /\ [][NextValidate]_vars

\* The components the claim calls invalid.  "Matching" a pattern is the
\* anchored match of the source's regular expression, under which a scheme or
\* an IP-literal followed by one final newline still matches.
SchemeInvalid(v) == v.scheme # <<>> /\ ~_valid_scheme_re(v.scheme)
UserinfoInvalid(v) ==
    \E i \in 1..Len(v.userinfo) : v.userinfo[i] \in {"/", "?", "#", "@", "[", "]"}
HostInvalid(v) ==
    IF startswith(v.host, <<"[">>) /\ endswith(v.host, <<"]">>)
    THEN ~_valid_ip_literal_re(SubSeq(v.host, 2, Len(v.host) - 1))
    ELSE \E i \in 1..Len(v.host) : v.host[i] \in {"/", "?", "#", "@", "[", "]", ":"}
PathInvalid(v) == \E i \in 1..Len(v.path) : v.path[i] \in {"?", "#"}
QueryInvalid(v) == \E i \in 1..Len(v.query) : v.query[i] = "#"

FirstInvalid(v) ==
    IF SchemeInvalid(v) THEN "InvalidScheme"
    ELSE IF UserinfoInvalid(v) THEN "InvalidUserinfo"
    ELSE IF HostInvalid(v) THEN "InvalidHost"
    ELSE IF PathInvalid(v) THEN "InvalidPath"
    ELSE IF QueryInvalid(v) THEN "InvalidQuery"
    ELSE ""

ValidateFirstInvalidWholeText ==
    pc = "validated" =>
        LET s == self.scheme
            h == SubSeq(self.host, 2, Len(self.host) - 1)
        IN  /\ (s # <<>> /\ ~SchemeUpTo(s, Len(s))) => exc = "InvalidScheme"
            /\ (startswith(self.host, <<"[">>) /\ endswith(self.host, <<"]">>)
                /\ ~IpLiteralUpTo(h, Len(h)))
               => exc \in {"InvalidScheme", "InvalidUserinfo", "InvalidHost"}


---------------------------------------------------------------------------
(* replace().                                                              *)

\* the truth value of an optional text argument: None and '' are false
truthy(x) == x # None /\ x # <<>>

\* URL.replace(self, **kw): [exc |-> the exception raised or "", value |-> the
\* URL returned].  kw holds None for every argument left out.
replace(v, kw) ==
    LET a == URL(<<"/", "/">> \o kw.authority)
        byAuthority == kw.authority # None
        host == IF byAuthority THEN a.host ELSE kw.host
        userinfo == IF byAuthority THEN a.userinfo ELSE kw.userinfo
        port == IF byAuthority THEN a.port ELSE kw.port
        f == URL(kw.full_path)
        byFullPath == kw.full_path # None
        path == IF byFullPath THEN f.path ELSE kw.path
        query == IF byFullPath THEN f.query ELSE kw.query
        fragment == IF byFullPath THEN f.fragment ELSE kw.fragment
    IN  IF byAuthority /\ (truthy(kw.host) \/ truthy(kw.userinfo) \/ truthy(kw.port))
        THEN [exc |-> "TypeError", value |-> EmptyURL]
        ELSE IF byFullPath
                /\ (truthy(kw.path) \/ truthy(kw.query) \/ truthy(kw.fragment))
        THEN [exc |-> "TypeError", value |-> EmptyURL]
        ELSE [exc |-> "",
              value |-> URL_new(None,
                  IF kw.scheme = None THEN v.scheme ELSE kw.scheme,
                  IF host = None THEN v.host ELSE host,
                  IF path = None THEN v.path ELSE path,
                  IF query = None THEN v.query ELSE query,
                  IF fragment = None THEN v.fragment ELSE fragment,
                  IF userinfo = None THEN v.userinfo ELSE userinfo,
                  IF port = None THEN v.port ELSE port)]

ReplaceSelf ==
    URL(<<"s", ":", "/", "/", "u", "@", "h", ":", "1", "/", "p", "?", "q", "#", "f">>)

InitReplace ==
    /\ pc = "start"
    /\ url = <<>>
    /\ self = ReplaceSelf
    /\ other = EmptyURL /\ result = EmptyURL
    /\ text = <<>> /\ exc = ""
    /\ kwargs \in [scheme : {None, <<"t">>},
                   host : {None, <<>>, <<"g">>},
                   path : {None, <<>>, <<"/", "r">>},
                   query : {None, <<>>, <<"y">>},
                   fragment : {None, <<>>, <<"e">>},
                   userinfo : {None, <<>>, <<"w">>},
                   port : {None, <<>>, <<"2">>},
                   authority : {None, <<>>, <<"v", "@", "i", ":", "3">>},
                   full_path : {None, <<>>, <<"/", "o", "?", "x", "#", "d">>}]
    /\ NoCache

\* result = self.replace(**kwargs)
Replace ==
    /\ pc = "start"
    /\ exc' = replace(self, kwargs).exc
    /\ result' = replace(self, kwargs).value
    /\ pc' = "replaced"
    /\ UNCHANGED <<url, self, other, text, kwargs, _cache, _cache_size, last,
                   tpc, turl, tself>>

NextReplace == Replace

SpecReplace == InitReplace /\ [][NextReplace]_vars

\* C9: replace fails with a construction error whenever authority is supplied
\* together with any of host, userinfo or port, and whenever full_path is
\* supplied together with any of path, query or fragment, an explicitly
\* supplied empty text included.
ReplaceConflictFails ==
    (/\ pc = "replaced"
     /\ \/ /\ kwargs.authority # None
           /\ kwargs.host # None \/ kwargs.userinfo # None \/ kwargs.port # None
        \/ /\ kwargs.full_path # None
           /\ kwargs.path # None \/ kwargs.query # None \/ kwargs.fragment # None)
    => exc = "TypeError"


---------------------------------------------------------------------------
(* CachedURL: the bounded parse cache, called by one caller at a time.     *)

\* the texts the callers parse: the first NumKeys of these
KeyList ==
    <<<<"a">>,
      <<"/", "/", "H", ":", "1">>,
      <<"s", ":", "p">>,
      <<"?", "q">>,
      <<>>,
      <<"/", "/", "u", "@", "h", "/", ".", ".">>>>

CacheKeys == {KeyList[i] : i \in 1..NumKeys}

\* _cache_size is a class attribute: the default, or a smaller capacity set
\* on the class
CacheSizes == (1..MaxCacheSize) \cup {DefaultCacheSize}

\* cls._cache.get(url) is not None
Cached(cache, u) == u \in DOMAIN cache

\* the capacity test with > for >=
CacheFullOffByOne(cache) == Cardinality(DOMAIN cache) > _cache_size

\* len(cls._cache) >= cls._cache_size
CacheFull(cache) == Cardinality(DOMAIN cache) >= _cache_size

\* cls._cache[url] = value
Store(cache, u, value) ==
    [k \in DOMAIN cache \cup {u} |-> IF k = u THEN value ELSE cache[k]]

NoCall == [op |-> "none", url |-> <<>>, hit |-> FALSE, before |-> 0, cleared |-> FALSE]

PureIdle ==
    /\ pc = "start" /\ url = <<>> /\ self = EmptyURL /\ other = EmptyURL
    /\ result = EmptyURL /\ text = <<>> /\ exc = "" /\ kwargs = <<>>

Init ==
    /\ PureIdle
    /\ _cache = EmptyCache
    /\ _cache_size \in CacheSizes
    /\ last = NoCall
    /\ tpc = <<>> /\ turl = <<>> /\ tself = <<>>

\* result = CachedURL(u): the whole of CachedURL.__new__ for a text u
CachedParse(u) ==
    LET hit == Cached(_cache, u)
        clear == ~hit /\ CacheFull(_cache)
        kept == IF clear THEN EmptyCache ELSE _cache
    IN  /\ _cache' = IF hit THEN _cache ELSE Store(kept, u, URL(u))
        /\ result' = IF hit THEN _cache[u] ELSE URL(u)
        /\ url' = u
        /\ last' = [op |-> "parse", url |-> u, hit |-> hit,
                    before |-> Cardinality(DOMAIN _cache), cleared |-> clear]
        /\ UNCHANGED <<pc, self, other, text, exc, kwargs, _cache_size,
                       tpc, turl, tself>>

\* result = CachedURL(None, scheme, '', path): built from parts, never cached
CachedConstruct(scheme, path) ==
    /\ result' = URL_new(None, scheme, <<>>, path, <<>>, <<>>, <<>>, <<>>)
    /\ last' = [NoCall EXCEPT !.op = "construct"]
    /\ UNCHANGED <<pc, url, self, other, text, exc, kwargs, _cache, _cache_size,
                   tpc, turl, tself>>

Next ==
    \/ \E u \in CacheKeys : CachedParse(u)
    \/ \E scheme \in {<<>>, <<"s">>}, path \in CacheKeys : CachedConstruct(scheme, path)

Spec == Init /\ [][Next]_vars

\* C5: with calls made one at a time the cache never holds more than
\* _cache_size entries; a miss that finds the cache at capacity clears it
\* before inserting, so that only the new text is cached afterwards and every
\* text cached before misses on its next lookup.  Every entry is the parse of
\* its key.
CacheBound ==
    /\ Cardinality(DOMAIN _cache) <= _cache_size
    /\ \A k \in DOMAIN _cache : _cache[k] = URL(k)
    /\ (last.op = "parse" /\ ~last.hit /\ last.before >= _cache_size)
       => DOMAIN _cache = {last.url}
    /\ (last.op = "parse" /\ ~last.hit /\ last.before < _cache_size)
       => Cardinality(DOMAIN _cache) = last.before + 1

CacheBoundWitness ==
    /\ last.op = "parse" /\ last.cleared /\ last.before >= 2
    /\ DOMAIN _cache = {last.url}

---------------------------------------------------------------------------
(* CachedURL called from several threads: one statement of __new__ a step. *)

Threads == 1..NumThreads

InitThreads ==
    /\ PureIdle
    /\ _cache = EmptyCache
    /\ _cache_size \in 1..MaxCacheSize
    /\ last = NoCall
    /\ tpc = [t \in Threads |-> "idle"]
    /\ turl = [t \in Threads |-> <<>>]
    /\ tself = [t \in Threads |-> EmptyURL]

\* thread t enters CachedURL.__new__(cls, u)
TCall(t, u) ==
    /\ tpc[t] = "idle"
    /\ turl' = [turl EXCEPT ![t] = u]
    /\ tpc' = [tpc EXCEPT ![t] = "get"]
    /\ UNCHANGED <<pc, url, self, other, result, text, exc, kwargs, _cache,
                   _cache_size, last, tself>>

\* self = cls._cache.get(url); if self is None:
TGet(t) ==
    /\ tpc[t] = "get"
    /\ IF Cached(_cache, turl[t])
       THEN /\ tself' = [tself EXCEPT ![t] = _cache[turl[t]]]
            /\ tpc' = [tpc EXCEPT ![t] = "return"]
       ELSE /\ tself' = tself
            /\ tpc' = [tpc EXCEPT ![t] = "len"]
    /\ UNCHANGED <<pc, url, self, other, result, text, exc, kwargs, _cache,
                   _cache_size, last, turl>>

\* if len(cls._cache) >= cls._cache_size:
TLen(t) ==
    /\ tpc[t] = "len"
    /\ tpc' = [tpc EXCEPT ![t] = IF CacheFull(_cache) THEN "clear" ELSE "new"]
    /\ UNCHANGED <<pc, url, self, other, result, text, exc, kwargs, _cache,
                   _cache_size, last, turl, tself>>

\* cls._cache.clear()
TClear(t) ==
    /\ tpc[t] = "clear"
    /\ _cache' = EmptyCache
    /\ tpc' = [tpc EXCEPT ![t] = "new"]
    /\ UNCHANGED <<pc, url, self, other, result, text, exc, kwargs,
                   _cache_size, last, turl, tself>>

\* self = URL.__new__(cls, url)
TNew(t) ==
    /\ tpc[t] = "new"
    /\ tself' = [tself EXCEPT ![t] = URL(turl[t])]
    /\ tpc' = [tpc EXCEPT ![t] = "store"]
    /\ UNCHANGED <<pc, url, self, other, result, text, exc, kwargs, _cache,
                   _cache_size, last, turl>>

\* cls._cache[url] = self
TStore(t) ==
    /\ tpc[t] = "store"
    /\ _cache' = Store(_cache, turl[t], tself[t])
    /\ tpc' = [tpc EXCEPT ![t] = "return"]
    /\ UNCHANGED <<pc, url, self, other, result, text, exc, kwargs,
                   _cache_size, last, turl, tself>>

\* return self
TReturn(t) ==
    /\ tpc[t] = "return"
    /\ tpc' = [tpc EXCEPT ![t] = "idle"]
    /\ UNCHANGED <<pc, url, self, other, result, text, exc, kwargs, _cache,
                   _cache_size, last, turl, tself>>

NextThreads ==
    \E t \in Threads :
        \/ \E u \in CacheKeys : TCall(t, u)
        \/ TGet(t)
        \/ TLen(t)
        \/ TClear(t)
        \/ TNew(t)
        \/ TStore(t)
        \/ TReturn(t)

SpecThreads == InitThreads /\ [][NextThreads]_vars

\* thread t is past the lookup and has not yet inserted
InSequence(t) == tpc[t] \in {"len", "clear", "new", "store"}

\* C6: the lookup / size-check / clear / insert sequence of a call runs under
\* one lock: no two threads are both between the lookup and the insert.
CacheMutualExclusion ==
    \A t1, t2 \in Threads : t1 # t2 => ~(InSequence(t1) /\ InSequence(t2))

\* What the missing lock costs: with threads interleaved the cache can hold
\* more than _cache_size entries.
CacheBoundThreads == Cardinality(DOMAIN _cache) <= _cache_size

===========================================================================
